---- MODULE Spec2Model ----
(***************************************************************************)
(* Model of the calculation core of pogodaa/calculation_module:            *)
(*   app/models.py      Indicator, CalculationInput, CalculationResult     *)
(*   app/validators.py  validate_indicator, validate_input_data            *)
(*   app/calculator.py  MetricsCalculator (metric functions and            *)
(*                      calculate_all_metrics)                             *)
(*                                                                         *)
(* Conventions.                                                            *)
(*  - Python numbers are modelled as exact rationals [n, d] in lowest      *)
(*    terms (d > 0); floating-point rounding and overflow are outside the  *)
(*    model.  math.sqrt(x) is kept symbolic as [sqrt |-> x].               *)
(*  - A Python value whose type matters to the code carries its type:      *)
(*    identifiers are [t, s] (t the type name), values and coefficient     *)
(*    values are [t, n].                                                   *)
(*  - A call either returns or raises: Return(v) / Raise(exc, msg).        *)
(*  - The Russian message texts of the source are transliterated to ASCII. *)
(*  - A message made by "\n".join(lines) is the sequence of its lines.     *)
(*  - CalculationResult.timestamp (datetime.now()) is left out.            *)
(***************************************************************************)
EXTENDS Integers, Sequences, FiniteSets, TLC

VARIABLES
    op,            \* the operation called last ("none" before any call)
    indicators,    \* its indicator sequence
    coefficients,  \* its coefficient dict
    scalars,       \* its two scalar arguments
    ret,           \* what the call did: Return(value) or Raise(exc, msg)
    calls          \* the metric functions the call invoked, in order

vars == <<op, indicators, coefficients, scalars, ret, calls>>

(***************************************************************************)
(* Bounds of the model.                                                    *)
(***************************************************************************)
MaxLen == 2

(***************************************************************************)
(* Exact arithmetic.                                                       *)
(***************************************************************************)
Abs(x) == IF x < 0 THEN -x ELSE x

RECURSIVE GCD(_, _)
GCD(a, b) == IF b = 0 THEN a ELSE GCD(b, a % b)

\* the rational n/d in lowest terms, d > 0
R(n, d) ==
    LET g == GCD(Abs(n), Abs(d))
        s == IF d < 0 THEN -1 ELSE 1
    IN  [n |-> (s * n) \div g, d |-> (s * d) \div g]

Num(i) == [n |-> i, d |-> 1]
RAdd(a, b) == R(a.n * b.d + b.n * a.d, a.d * b.d)
RSub(a, b) == R(a.n * b.d - b.n * a.d, a.d * b.d)
RMul(a, b) == R(a.n * b.n, a.d * b.d)
RDiv(a, b) == R(a.n * b.d, a.d * b.n)
RLess(a, b) == a.n * b.d < b.n * a.d
RZero(a) == a.n = 0

RECURSIVE RSum(_)
\* sum(values)
RSum(s) == IF s = <<>> THEN Num(0) ELSE RAdd(RSum(SubSeq(s, 1, Len(s) - 1)), s[Len(s)])

\* math.sqrt
Sqrt(x) == [sqrt |-> x]

(***************************************************************************)
(* Outcome of a call.                                                      *)
(***************************************************************************)
Return(v) == [raised |-> FALSE, value |-> v]
Raise(e, m) == [raised |-> TRUE, exc |-> e, msg |-> m]

(***************************************************************************)
(* Python values and exception classes.                                    *)
(***************************************************************************)
None == [t |-> "NoneType", n |-> 0]
Float(i) == [t |-> "float", n |-> i]
\* a value that is no number (a str)
NotANumber == [t |-> "str", n |-> 0]
\* isinstance(v, (int, float))
IsNumber(v) == v.t \in {"int", "float"}

Str(s) == [t |-> "str", s |-> s]
\* the list [s]: a non-str, truthy, unhashable identifier
List(s) == [t |-> "list", s |-> s]
\* bool(id)
Truthy(id) == IF id.t = "str" THEN id.s # "" ELSE id.t # "NoneType"
\* hash(id) is defined
Hashable(id) == id.t # "list"

\* validators.ValidationError, validators.ZeroDivisionError (both derive from
\* Exception) and the builtins the code raises
ExceptionClasses == {"ValidationError", "ZeroDivisionError", "ValueError", "TypeError"}
\* isinstance(e, cls) for an exception of class e
IsInstance(e, cls) == cls = e \/ (cls = "Exception" /\ e \in ExceptionClasses)

(***************************************************************************)
(* app/models.py                                                           *)
(***************************************************************************)
\* Indicator(id, value, weight) with __post_init__: a weight of None becomes 1.0
Indicator(id, value, weight) ==
    [id |-> id, value |-> value,
     weight |-> IF weight = None THEN Float(1) ELSE weight]

\* coefficients is a dict: a sequence of <<key, value>> in insertion order
CalculationInput(inds, coefs) == [indicators |-> inds, coefficients |-> coefs]

HasKey(coefs, k) == \E i \in 1..Len(coefs) : coefs[i][1] = k
Get(coefs, k) == coefs[CHOOSE i \in 1..Len(coefs) : coefs[i][1] = k][2]

CalculationResult(success, data, errors, warnings) ==
    [success |-> success, data |-> data, errors |-> errors, warnings |-> warnings]

(***************************************************************************)
(* app/validators.py                                                       *)
(***************************************************************************)
RECURSIVE Concat(_)
\* the concatenation of a sequence of sequences
Concat(ss) == IF ss = <<>> THEN <<>> ELSE Concat(SubSeq(ss, 1, Len(ss) - 1)) \o ss[Len(ss)]

validate_indicator(indicator) ==
    (IF ~Truthy(indicator.id) \/ indicator.id.t # "str"
        THEN <<[text |-> "Nekorrektnyj identifikator", id |-> indicator.id]>>
        ELSE <<>>)
    \o
    (IF ~IsNumber(indicator.value)
        THEN <<[text |-> "Nekorrektnoe znachenie dlya", id |-> indicator.id,
                value |-> indicator.value]>>
        ELSE <<>>)
    \o
    (IF indicator.weight # None /\ indicator.weight.n < 0
        THEN <<[text |-> "Ves ne mozhet byt' otricatel'nym", id |-> indicator.id]>>
        ELSE <<>>)

validate_input_data(data) ==
    IF data.indicators = <<>>
    THEN Raise("ValidationError", <<[text |-> "Spisok pokazatelej pust"]>>)
    ELSE
      LET per == Concat([i \in 1..Len(data.indicators) |->
                            validate_indicator(data.indicators[i])])
          ids == [i \in 1..Len(data.indicators) |-> data.indicators[i].id]
      IN  \* set(ids) hashes every identifier
          IF \E i \in 1..Len(ids) : ~Hashable(ids[i])
          THEN Raise("TypeError", <<[text |-> "unhashable type: 'list'"]>>)
          ELSE
            LET uniq == IF Len(ids) # Cardinality({ids[i] : i \in 1..Len(ids)})
                        THEN <<[text |-> "Identifikatory pokazatelej dolzhny byt' unikal'nymi"]>>
                        ELSE <<>>
                coef == Concat([i \in 1..Len(data.coefficients) |->
                            IF ~IsNumber(data.coefficients[i][2])
                            THEN <<[text |-> "Koefficient dolzhen byt' chislom",
                                    key |-> data.coefficients[i][1]]>>
                            ELSE <<>>])
                all_errors == per \o uniq \o coef
            IN  IF all_errors # <<>>
                THEN Raise("ValidationError", all_errors)
                ELSE Return(None)

(***************************************************************************)
(* app/calculator.py: the metric functions of MetricsCalculator.           *)
(***************************************************************************)
\* [ind.value for ind in indicators], as rationals
Values(inds) == [i \in 1..Len(inds) |-> Num(inds[i].value.n)]

\* indicator.weight if indicator.weight is not None else 1.0
WeightOf(indicator) ==
    IF indicator.weight # None THEN Num(indicator.weight.n) ELSE Num(1)

RECURSIVE Insert(_, _)
Insert(x, s) ==
    IF s = <<>> THEN <<x>>
    ELSE IF RLess(x, s[1]) THEN <<x>> \o s
    ELSE <<s[1]>> \o Insert(x, Tail(s))

RECURSIVE Sorted(_)
\* sorted(values)
Sorted(s) == IF s = <<>> THEN <<>> ELSE Insert(s[Len(s)], Sorted(SubSeq(s, 1, Len(s) - 1)))

\* min(values), max(values) of a non-empty sequence
Min(s) == s[CHOOSE i \in 1..Len(s) : \A j \in 1..Len(s) : ~RLess(s[j], s[i])]
Max(s) == s[CHOOSE i \in 1..Len(s) : \A j \in 1..Len(s) : ~RLess(s[i], s[j])]

\* sum((x - mean) ** 2 for x in values) / len(values)
PopulationVariance(values) ==
    LET mean == RDiv(RSum(values), Num(Len(values)))
        sq == [i \in 1..Len(values) |->
                 RMul(RSub(values[i], mean), RSub(values[i], mean))]
    IN  RDiv(RSum(sq), Num(Len(values)))

calculate_arithmetic_mean(inds) ==
    IF inds = <<>>
    THEN Raise("ValueError", "Net dannyh dlya raschyota srednego")
    ELSE LET values == Values(inds)
         IN  Return(RDiv(RSum(values), Num(Len(values))))

\* mutant: the sum of the values is not weighted
calculate_weighted_mean_UnweightedSum(inds) ==
    IF inds = <<>>
    THEN Raise("ValueError", "Net dannyh dlya raschyota vzveshennogo srednego")
    ELSE
      LET weighted_sum == RSum(Values(inds))
          total_weight == RSum([i \in 1..Len(inds) |-> WeightOf(inds[i])])
      IN  IF RZero(total_weight)
          THEN Raise("ValueError", "Summa vesov ravna nulyu")
          ELSE Return(RDiv(weighted_sum, total_weight))

calculate_weighted_mean(inds) ==
    IF inds = <<>>
    THEN Raise("ValueError", "Net dannyh dlya raschyota vzveshennogo srednego")
    ELSE
      LET weighted_sum == RSum([i \in 1..Len(inds) |->
                                  RMul(Num(inds[i].value.n), WeightOf(inds[i]))])
          total_weight == RSum([i \in 1..Len(inds) |-> WeightOf(inds[i])])
      IN  IF RZero(total_weight)
          THEN Raise("ValueError", "Summa vesov ravna nulyu")
          ELSE Return(RDiv(weighted_sum, total_weight))

calculate_growth_rate(cur, prev) ==
    IF RZero(prev)
    THEN Raise("ValueError", "Predydushchee znachenie ne mozhet byt' 0")
    ELSE Return(RMul(RDiv(RSub(cur, prev), prev), Num(100)))

calculate_efficiency_ratio(output, input_val) ==
    IF RZero(input_val)
    THEN Raise("ValueError", "Vhodnoe znachenie ne mozhet byt' 0")
    ELSE Return(RDiv(output, input_val))

\* mutant: the standard deviation asks for 3 values
calculate_standard_deviation_NeedsThree(inds) ==
    IF Len(inds) < 3
    THEN Raise("ValueError", "Trebuetsya minimum 2 znacheniya dlya raschyota otkloneniya")
    ELSE Return(Sqrt(PopulationVariance(Values(inds))))

calculate_standard_deviation(inds) ==
    IF Len(inds) < 2
    THEN Raise("ValueError", "Trebuetsya minimum 2 znacheniya dlya raschyota otkloneniya")
    ELSE Return(Sqrt(PopulationVariance(Values(inds))))

calculate_median(inds) ==
    IF inds = <<>>
    THEN Raise("ValueError", "Net dannyh dlya raschyota mediany")
    ELSE
      LET values == Sorted(Values(inds))
          n == Len(values)
      IN  \* Python indexes from 0: values[n // 2] is the (n \div 2 + 1)-th
          IF n % 2 = 1
          THEN Return(values[n \div 2 + 1])
          ELSE Return(RDiv(RAdd(values[n \div 2], values[n \div 2 + 1]), Num(2)))

calculate_variance(inds) ==
    IF Len(inds) < 2
    THEN Raise("ValueError", "Trebuetsya minimum 2 znacheniya dlya raschyota dispersii")
    ELSE Return(PopulationVariance(Values(inds)))

calculate_range(inds) ==
    IF inds = <<>>
    THEN Raise("ValueError", "Net dannyh dlya raschyota razmaha")
    ELSE LET values == Values(inds)
         IN  Return([min |-> Min(values), max |-> Max(values),
                     range |-> RSub(Max(values), Min(values))])

(***************************************************************************)
(* app/calculator.py: MetricsCalculator.calculate_all_metrics.             *)
(* The body of the outer try is a chain of steps over                      *)
(*   results, errors, warnings  the three locals of the function,          *)
(*   calls                      the metric functions invoked so far,       *)
(*   escaped                    the exception that left an inner try, if   *)
(*                              any: every later step is then skipped.     *)
(***************************************************************************)
EmptyDict == [k \in {} |-> None]
Put(m, k, v) == [x \in DOMAIN m \cup {k} |-> IF x = k THEN v ELSE m[x]]

NoException == [raised |-> FALSE]

Locals0 ==
    [results |-> EmptyDict, errors |-> <<>>, warnings |-> <<>>, calls |-> <<>>,
     escaped |-> NoException]

\* f"{prefix}: {e}"
Entry(prefix, e) == [prefix |-> prefix, msg |-> e.msg]

\* mutant: the failure of an error-tier metric is not caught and leaves the try
TryMetric_ErrorEscapes(st, name, r, key, dest, prefix) ==
    IF st.escaped.raised THEN st
    ELSE
      LET called == [st EXCEPT !.calls = Append(@, name)]
      IN  IF ~r.raised
          THEN [called EXCEPT !.results = Put(@, key, r.value)]
          ELSE IF IsInstance(r.exc, "ValueError") /\ dest # "errors"
          THEN [called EXCEPT !.warnings = Append(@, Entry(prefix, r))]
          ELSE [called EXCEPT !.escaped = r]

\* mutant: every metric failure is appended to errors
TryMetric_AllToErrors(st, name, r, key, dest, prefix) ==
    IF st.escaped.raised THEN st
    ELSE
      LET called == [st EXCEPT !.calls = Append(@, name)]
      IN  IF ~r.raised
          THEN [called EXCEPT !.results = Put(@, key, r.value)]
          ELSE IF IsInstance(r.exc, "ValueError")
          THEN [called EXCEPT !.errors = Append(@, Entry(prefix, r))]
          ELSE [called EXCEPT !.escaped = r]

\* try: <store the value of the call r of metric function name>
\* except ValueError as e: <dest>.append(f"{prefix}: {e}")
TryMetric(st, name, r, key, dest, prefix) ==
    IF st.escaped.raised THEN st
    ELSE
      LET called == [st EXCEPT !.calls = Append(@, name)]
      IN  IF ~r.raised
          THEN [called EXCEPT !.results = Put(@, key, r.value)]
          ELSE IF IsInstance(r.exc, "ValueError")
          THEN IF dest = "errors"
               THEN [called EXCEPT !.errors = Append(@, Entry(prefix, r))]
               ELSE [called EXCEPT !.warnings = Append(@, Entry(prefix, r))]
          ELSE [called EXCEPT !.escaped = r]

\* results.update({'min_value': ..., 'max_value': ..., 'value_range': ...})
TryRange(st, r) ==
    IF st.escaped.raised THEN st
    ELSE
      LET called == [st EXCEPT !.calls = Append(@, "calculate_range")]
      IN  IF ~r.raised
          THEN [called EXCEPT !.results =
                   Put(Put(Put(@, "min_value", r.value.min),
                           "max_value", r.value.max),
                       "value_range", r.value.range)]
          ELSE IF IsInstance(r.exc, "ValueError")
          THEN [called EXCEPT !.warnings = Append(@, Entry("Razmah", r))]
          ELSE [called EXCEPT !.escaped = r]

\* mutant: the growth rate is computed from the weighted mean
GrowthStep_FromWeightedMean(st, coefs) ==
    IF st.escaped.raised \/ ~HasKey(coefs, "previous_period_value") THEN st
    ELSE IF "weighted_mean" \notin DOMAIN st.results THEN st
    ELSE TryMetric(st, "calculate_growth_rate",
                   calculate_growth_rate(st.results["weighted_mean"],
                                         Num(Get(coefs, "previous_period_value").n)),
                   "growth_rate", "errors", "Temp rosta")

\* mutant: a failure of the growth rate is appended to warnings
GrowthStep_ToWarnings(st, coefs) ==
    IF st.escaped.raised \/ ~HasKey(coefs, "previous_period_value") THEN st
    ELSE IF "mean" \notin DOMAIN st.results THEN st
    ELSE TryMetric(st, "calculate_growth_rate",
                   calculate_growth_rate(st.results["mean"],
                                         Num(Get(coefs, "previous_period_value").n)),
                   "growth_rate", "warnings", "Temp rosta")

\* if 'previous_period_value' in input_data.coefficients: ...
GrowthStep(st, coefs) ==
    IF st.escaped.raised \/ ~HasKey(coefs, "previous_period_value") THEN st
    ELSE IF "mean" \notin DOMAIN st.results THEN st   \* results.get('mean') is None
    ELSE TryMetric(st, "calculate_growth_rate",
                   calculate_growth_rate(st.results["mean"],
                                         Num(Get(coefs, "previous_period_value").n)),
                   "growth_rate", "errors", "Temp rosta")

\* if 'output_value' in ... and 'input_value' in ...: ...
EfficiencyStep(st, coefs) ==
    IF st.escaped.raised \/ ~(HasKey(coefs, "output_value") /\ HasKey(coefs, "input_value"))
    THEN st
    ELSE TryMetric(st, "calculate_efficiency_ratio",
                   calculate_efficiency_ratio(Num(Get(coefs, "output_value").n),
                                              Num(Get(coefs, "input_value").n)),
                   "efficiency_ratio", "errors", "Koefficient effektivnosti")

\* if input_data.indicators: sum, count and avg_contribution
AggregatesStep(st, inds) ==
    IF st.escaped.raised \/ inds = <<>> THEN st
    ELSE
      LET values == Values(inds)
          withSum == Put(Put(st.results, "sum", RSum(values)), "count", Num(Len(values)))
      IN  [st EXCEPT !.results =
              IF ~RZero(withSum["sum"])
              THEN Put(withSum, "avg_contribution", RDiv(Num(100), Num(Len(values))))
              ELSE withSum]

\* the statements of the outer try after validate_input_data(input_data)
Pipeline(input_data) ==
    LET inds == input_data.indicators
        s1 == TryMetric(Locals0, "calculate_arithmetic_mean",
                        calculate_arithmetic_mean(inds),
                        "mean", "errors", "Srednee arifmeticheskoe")
        s2 == TryMetric(s1, "calculate_weighted_mean",
                        calculate_weighted_mean(inds),
                        "weighted_mean", "errors", "Srednevzveshennoe")
        s3 == TryMetric(s2, "calculate_standard_deviation",
                        calculate_standard_deviation(inds),
                        "std_dev", "warnings", "Standartnoe otklonenie")
        s4 == TryMetric(s3, "calculate_median",
                        calculate_median(inds),
                        "median", "warnings", "Mediana")
        s5 == TryMetric(s4, "calculate_variance",
                        calculate_variance(inds),
                        "variance", "warnings", "Dispersiya")
        s6 == TryRange(s5, calculate_range(inds))
        s7 == GrowthStep(s6, input_data.coefficients)
        s8 == EfficiencyStep(s7, input_data.coefficients)
    IN  AggregatesStep(s8, inds)

\* mutant: a warning also fails the result
Assemble_WarningsFail(st) ==
    Return(CalculationResult(Len(st.errors) = 0 /\ Len(st.warnings) = 0,
                             st.results, st.errors, st.warnings))

\* success = len(errors) == 0; return CalculationResult(...)
Assemble(st) ==
    Return(CalculationResult(Len(st.errors) = 0, st.results, st.errors, st.warnings))

\* mutant: without the handler "except Exception"
TopLevelHandlers_OnlyValidation(e) ==
    IF IsInstance(e.exc, "ValidationError")
    THEN Return(CalculationResult(FALSE, EmptyDict,
                                  <<[prefix |-> "Oshibka validacii", msg |-> e.msg]>>, <<>>))
    ELSE e

\* the two handlers of the outer try, for an exception e that reached them
TopLevelHandlers(e) ==
    IF IsInstance(e.exc, "ValidationError")
    THEN Return(CalculationResult(FALSE, EmptyDict,
                                  <<[prefix |-> "Oshibka validacii", msg |-> e.msg]>>, <<>>))
    ELSE IF IsInstance(e.exc, "Exception")
    THEN Return(CalculationResult(FALSE, EmptyDict,
                                  <<[prefix |-> "Sistemnaya oshibka", msg |-> e.msg]>>, <<>>))
    ELSE e

\* the call with the metric functions it invoked: [outcome, calls]
RunAllMetrics(input_data) ==
    LET v == validate_input_data(input_data)
    IN  IF v.raised
        THEN [outcome |-> TopLevelHandlers(v), calls |-> <<>>]
        ELSE LET st == Pipeline(input_data)
             IN  [outcome |-> IF st.escaped.raised
                              THEN TopLevelHandlers(st.escaped)
                              ELSE Assemble(st),
                  calls |-> st.calls]

calculate_all_metrics(input_data) == RunAllMetrics(input_data).outcome

(***************************************************************************)
(* The inputs the callers draw from.                                       *)
(***************************************************************************)
\* identifiers: two good ones, the empty text, and a JSON list
IdDomain == {Str("a"), Str("b"), Str(""), List("a")}
ValueDomain == {Float(0), Float(2), NotANumber}
\* the weight argument of the constructor (None: not given)
WeightDomain == {None, Float(-1), Float(0)}

IndicatorDomain ==
    {Indicator(id, value, weight) :
        id \in IdDomain, value \in ValueDomain, weight \in WeightDomain}

SeqsUpTo(S, n) == UNION {[1..k -> S] : k \in 0..n}

IndicatorLists == SeqsUpTo(IndicatorDomain, MaxLen)

\* dicts built key by key, in this insertion order
Item(k, v) == <<(<<k, v>>)>>
PreviousItems ==
    {<<>>, Item("previous_period_value", Float(0)),
     Item("previous_period_value", Float(4))}
OtherItems ==
    {<<>>,
     Item("output_value", Float(6)),
     Item("input_value", Float(0)),
     Item("output_value", Float(6)) \o Item("input_value", Float(0)),
     Item("output_value", Float(6)) \o Item("input_value", Float(3)),
     Item("output_value", NotANumber) \o Item("input_value", NotANumber),
     Item("comment", Float(1))}
CoefficientDicts == {p \o o : p \in PreviousItems, o \in OtherItems}

\* well-typed indicators for the metric functions called on their own
MetricIndicatorDomain ==
    {Indicator(Str("a"), value, weight) :
        value \in {Float(-1), Float(0), Float(2)},
        weight \in {None, Float(0), Float(2), Float(3)}}
MetricIndicatorLists == SeqsUpTo(MetricIndicatorDomain, MaxLen)

ScalarDomain == {Num(-1), Num(0), Num(100), Num(150)}

(***************************************************************************)
(* The state machine: a caller invokes one public operation on one input.  *)
(* The operations are stateless, so a behaviour is a single call.          *)
(***************************************************************************)
Init ==
    /\ op = "none"
    /\ indicators = <<>>
    /\ coefficients = <<>>
    /\ scalars = <<>>
    /\ ret = Return(None)
    /\ calls = <<>>

CalculateAllMetrics ==
    /\ op = "none"
    /\ \E inds \in IndicatorLists, coefs \in CoefficientDicts :
        /\ op' = "calculate_all_metrics"
        /\ indicators' = inds
        /\ coefficients' = coefs
        /\ scalars' = <<>>
        /\ ret' = calculate_all_metrics(CalculationInput(inds, coefs))
        /\ calls' = RunAllMetrics(CalculationInput(inds, coefs)).calls

ValidateInputData ==
    /\ op = "none"
    /\ \E inds \in IndicatorLists, coefs \in CoefficientDicts :
        /\ op' = "validate_input_data"
        /\ indicators' = inds
        /\ coefficients' = coefs
        /\ scalars' = <<>>
        /\ ret' = validate_input_data(CalculationInput(inds, coefs))
        /\ calls' = <<>>

\* the metric functions called on their own
ArithmeticMean ==
    /\ op = "none"
    /\ \E inds \in MetricIndicatorLists :
        /\ op' = "calculate_arithmetic_mean"
        /\ indicators' = inds
        /\ coefficients' = <<>>
        /\ scalars' = <<>>
        /\ ret' = calculate_arithmetic_mean(inds)
        /\ calls' = <<"calculate_arithmetic_mean">>

WeightedMean ==
    /\ op = "none"
    /\ \E inds \in MetricIndicatorLists :
        /\ op' = "calculate_weighted_mean"
        /\ indicators' = inds
        /\ coefficients' = <<>>
        /\ scalars' = <<>>
        /\ ret' = calculate_weighted_mean(inds)
        /\ calls' = <<"calculate_weighted_mean">>

StandardDeviation ==
    /\ op = "none"
    /\ \E inds \in MetricIndicatorLists :
        /\ op' = "calculate_standard_deviation"
        /\ indicators' = inds
        /\ coefficients' = <<>>
        /\ scalars' = <<>>
        /\ ret' = calculate_standard_deviation(inds)
        /\ calls' = <<"calculate_standard_deviation">>

Median ==
    /\ op = "none"
    /\ \E inds \in MetricIndicatorLists :
        /\ op' = "calculate_median"
        /\ indicators' = inds
        /\ coefficients' = <<>>
        /\ scalars' = <<>>
        /\ ret' = calculate_median(inds)
        /\ calls' = <<"calculate_median">>

Variance ==
    /\ op = "none"
    /\ \E inds \in MetricIndicatorLists :
        /\ op' = "calculate_variance"
        /\ indicators' = inds
        /\ coefficients' = <<>>
        /\ scalars' = <<>>
        /\ ret' = calculate_variance(inds)
        /\ calls' = <<"calculate_variance">>

Range ==
    /\ op = "none"
    /\ \E inds \in MetricIndicatorLists :
        /\ op' = "calculate_range"
        /\ indicators' = inds
        /\ coefficients' = <<>>
        /\ scalars' = <<>>
        /\ ret' = calculate_range(inds)
        /\ calls' = <<"calculate_range">>

GrowthRate ==
    /\ op = "none"
    /\ \E a \in ScalarDomain, b \in ScalarDomain :
        /\ op' = "calculate_growth_rate"
        /\ indicators' = <<>>
        /\ coefficients' = <<>>
        /\ scalars' = <<a, b>>
        /\ ret' = calculate_growth_rate(a, b)
        /\ calls' = <<"calculate_growth_rate">>

EfficiencyRatio ==
    /\ op = "none"
    /\ \E a \in ScalarDomain, b \in ScalarDomain :
        /\ op' = "calculate_efficiency_ratio"
        /\ indicators' = <<>>
        /\ coefficients' = <<>>
        /\ scalars' = <<a, b>>
        /\ ret' = calculate_efficiency_ratio(a, b)
        /\ calls' = <<"calculate_efficiency_ratio">>

\* calls of the orchestrator
Next == CalculateAllMetrics

Spec == Init /\ [][Next]_vars

\* calls of the validator
NextValidate == ValidateInputData

SpecValidate == Init /\ [][NextValidate]_vars

\* calls of the metric functions
NextMetrics ==
    \/ ArithmeticMean
    \/ WeightedMean
    \/ StandardDeviation
    \/ Median
    \/ Variance
    \/ Range
    \/ GrowthRate
    \/ EfficiencyRatio

SpecMetrics == Init /\ [][NextMetrics]_vars

(***************************************************************************)
(* What the claims say about an input, stated on the input itself.         *)
(***************************************************************************)
Idx == 1..Len(indicators)
InputEmpty == indicators = <<>>
BadIdentifier(i) == indicators[i].id.t # "str" \/ indicators[i].id.s = ""
NonNumericValue(i) == indicators[i].value.t \notin {"int", "float"}
NegativeWeight(i) == indicators[i].weight.n < 0
DuplicateIdentifiers == \E i, j \in Idx : i < j /\ indicators[i].id = indicators[j].id
NonNumericCoefficient(k) == coefficients[k][2].t \notin {"int", "float"}

InputViolation ==
    \/ InputEmpty
    \/ \E i \in Idx : BadIdentifier(i) \/ NonNumericValue(i) \/ NegativeWeight(i)
    \/ DuplicateIdentifiers
    \/ \E k \in 1..Len(coefficients) : NonNumericCoefficient(k)

PassesValidation == ~InputViolation

\* a coefficient is present / present with the value 0
Present(key) == \E k \in 1..Len(coefficients) : coefficients[k][1] = key
PresentZero(key) ==
    \E k \in 1..Len(coefficients) : coefficients[k][1] = key /\ coefficients[k][2].n = 0
PresentNonZero(key) == Present(key) /\ ~PresentZero(key)

RECURSIVE SumWeights(_)
SumWeights(i) == IF i = 0 THEN 0 ELSE SumWeights(i - 1) + indicators[i].weight.n
ZeroWeightSum == SumWeights(Len(indicators)) = 0

AllMetricsCalled == op = "calculate_all_metrics"
Result == ret.value
HasError(prefix) == \E k \in 1..Len(Result.errors) : Result.errors[k].prefix = prefix
HasWarning(prefix) == \E k \in 1..Len(Result.warnings) : Result.warnings[k].prefix = prefix

(***************************************************************************)
(* C1: calculate_all_metrics never lets an exception reach its caller: it  *)
(* always returns a CalculationResult, and on every failure path (the      *)
(* input violates a validation rule, an error-tier metric fails, or        *)
(* something unexpected is raised) the result has success = false and a    *)
(* non-empty errors list.                                                  *)
(***************************************************************************)
C1_FailurePath ==
    \/ InputViolation
    \/ ZeroWeightSum
    \/ PresentZero("previous_period_value")
    \/ (Present("output_value") /\ PresentZero("input_value"))

C1_NeverPropagates ==
    AllMetricsCalled =>
        /\ ~ret.raised
        /\ Result.success \in BOOLEAN
        /\ C1_FailurePath => (Result.success = FALSE /\ Len(Result.errors) > 0)

\* an unexpected failure (an unhashable identifier) ended in a result
C1_Witness ==
    /\ AllMetricsCalled
    /\ ~ret.raised
    /\ HasError("Sistemnaya oshibka")
    /\ Result.success = FALSE

(***************************************************************************)
(* C2: in every result of calculate_all_metrics success is true iff the    *)
(* errors list is empty; warnings never change success.                    *)
(***************************************************************************)
C2_SuccessIffNoErrors ==
    (AllMetricsCalled /\ ~ret.raised) =>
        (Result.success <=> (Result.errors = <<>>))

\* a result with warnings and no errors, which is a success
C2_Witness ==
    /\ AllMetricsCalled
    /\ ~ret.raised
    /\ Result.warnings # <<>>
    /\ Result.errors = <<>>
    /\ Result.success

(***************************************************************************)
(* C3: when the input violates a validation rule (empty sequence, bad      *)
(* identifier, non-numeric value, negative weight, duplicate identifiers,  *)
(* non-numeric coefficient) calculate_all_metrics returns success = false, *)
(* empty data, exactly one errors entry carrying the validation texts, no  *)
(* warnings, and no metric function has run.                               *)
(***************************************************************************)
C3_ValidationFailure ==
    (AllMetricsCalled /\ InputViolation) =>
        /\ ~ret.raised
        /\ Result.success = FALSE
        /\ Result.data = EmptyDict
        /\ Len(Result.errors) = 1
        /\ Result.errors[1].prefix = "Oshibka validacii"
        /\ Result.errors[1].msg # <<>>
        /\ Result.warnings = <<>>
        /\ calls = <<>>

(***************************************************************************)
(* C4: a failure of the weighted mean does not stop the pipeline: for an   *)
(* input that passes validation and whose weights sum to zero, the result  *)
(* has success = false, an errors entry of the weighted mean, no           *)
(* weighted_mean in data, and data holds every other metric that did not   *)
(* fail (std_dev and variance from 2 indicators on).                       *)
(***************************************************************************)
C4_WeightedMeanFailureIsolated ==
    (AllMetricsCalled /\ PassesValidation /\ ZeroWeightSum) =>
        /\ ~ret.raised
        /\ Result.success = FALSE
        /\ HasError("Srednevzveshennoe")
        /\ "weighted_mean" \notin DOMAIN Result.data
        /\ {"mean", "median", "min_value", "max_value", "value_range", "sum", "count"}
              \subseteq DOMAIN Result.data
        /\ Len(indicators) >= 2 => {"std_dev", "variance"} \subseteq DOMAIN Result.data

\* two valid indicators of weight 0: the weighted mean failed, the rest ran
C4_Witness ==
    /\ AllMetricsCalled
    /\ PassesValidation
    /\ ZeroWeightSum
    /\ Len(indicators) >= 2
    /\ ~ret.raised
    /\ HasError("Srednevzveshennoe")
    /\ "std_dev" \in DOMAIN Result.data

(***************************************************************************)
(* C5 as claimed: for exactly 1 indicator that passes validation (any      *)
(* weight >= 0) the result holds mean and weighted mean, records the       *)
(* standard deviation and the variance in warnings only, and has           *)
(* success = true.                                                         *)
(***************************************************************************)
C5_Body ==
    /\ ~ret.raised
    /\ {"mean", "weighted_mean"} \subseteq DOMAIN Result.data
    /\ HasWarning("Standartnoe otklonenie")
    /\ HasWarning("Dispersiya")
    /\ ~HasError("Standartnoe otklonenie")
    /\ ~HasError("Dispersiya")
    /\ {"std_dev", "variance"} \cap DOMAIN Result.data = {}
    /\ Result.success = TRUE

C5_SingleIndicator_AsClaimed ==
    (AllMetricsCalled /\ PassesValidation /\ Len(indicators) = 1) => C5_Body

(***************************************************************************)
(* C5 amended: the same for exactly 1 valid indicator of weight > 0 and    *)
(* coefficients under which neither the growth rate nor the efficiency     *)
(* ratio fails (a weight of 0 fails the weighted mean, a                   *)
(* previous_period_value of 0 the growth rate, an input_value of 0 next to *)
(* an output_value the efficiency ratio: each makes success false).        *)
(***************************************************************************)
C5_SingleIndicator ==
    (AllMetricsCalled /\ PassesValidation /\ Len(indicators) = 1
        /\ indicators[1].weight.n > 0
        /\ ~PresentZero("previous_period_value")
        /\ ~(Present("output_value") /\ PresentZero("input_value")))
    => C5_Body

\* one valid indicator of positive weight, computed with two warnings
C5_Witness ==
    /\ AllMetricsCalled
    /\ PassesValidation
    /\ Len(indicators) = 1
    /\ indicators[1].weight.n > 0
    /\ ~ret.raised
    /\ Result.success
    /\ Len(Result.warnings) = 2

(***************************************************************************)
(* C6 as claimed: for a non-empty sequence of indicators that all have the *)
(* same weight >= 0, calculate_weighted_mean returns what                  *)
(* calculate_arithmetic_mean returns for the same sequence.                *)
(***************************************************************************)
EqualWeights == \A i, j \in Idx : indicators[i].weight = indicators[j].weight

C6_EqualWeights_AsClaimed ==
    (op = "calculate_weighted_mean" /\ indicators # <<>> /\ EqualWeights
        /\ indicators[1].weight.n >= 0)
    => ret = calculate_arithmetic_mean(indicators)

(***************************************************************************)
(* C6 amended: the same for a common weight > 0 (with a common weight of 0 *)
(* the weights sum to zero and calculate_weighted_mean fails).             *)
(***************************************************************************)
C6_EqualWeights ==
    (op = "calculate_weighted_mean" /\ indicators # <<>> /\ EqualWeights
        /\ indicators[1].weight.n > 0)
    => (~ret.raised /\ ret = calculate_arithmetic_mean(indicators))

\* two indicators of different values and the same weight 2, averaged
C6_Witness ==
    /\ op = "calculate_weighted_mean"
    /\ Len(indicators) = 2
    /\ EqualWeights
    /\ indicators[1].weight.n = 2
    /\ indicators[1].value # indicators[2].value
    /\ ~ret.raised

(***************************************************************************)
(* C7: for an input that passes validation, has a non-zero sum of weights  *)
(* and coefficients previous_period_value # 0, output_value and            *)
(* input_value # 0, the result has success = true, no errors, and data     *)
(* holds mean, weighted_mean, growth_rate = ((mean - previous) / previous) *)
(* * 100 and efficiency_ratio = output_value / input_value.                *)
(***************************************************************************)
CoefficientValue(key) ==
    Num(coefficients[CHOOSE k \in 1..Len(coefficients) : coefficients[k][1] = key][2].n)

RECURSIVE SumValues(_)
SumValues(i) == IF i = 0 THEN 0 ELSE SumValues(i - 1) + indicators[i].value.n
MeanOfInput == R(SumValues(Len(indicators)), Len(indicators))

FullInput ==
    /\ AllMetricsCalled
    /\ PassesValidation
    /\ ~ZeroWeightSum
    /\ PresentNonZero("previous_period_value")
    /\ Present("output_value")
    /\ PresentNonZero("input_value")

C7_EndToEnd ==
    FullInput =>
        /\ ~ret.raised
        /\ Result.success = TRUE
        /\ Result.errors = <<>>
        /\ {"mean", "weighted_mean", "growth_rate", "efficiency_ratio"}
              \subseteq DOMAIN Result.data
        /\ Result.data["mean"] = MeanOfInput
        /\ Result.data["growth_rate"] =
              RMul(RDiv(RSub(MeanOfInput, CoefficientValue("previous_period_value")),
                        CoefficientValue("previous_period_value")),
                   Num(100))
        /\ Result.data["efficiency_ratio"] =
              RDiv(CoefficientValue("output_value"), CoefficientValue("input_value"))

\* a full input whose mean and weighted mean differ, computed successfully
C7_Witness ==
    /\ FullInput
    /\ ~ret.raised
    /\ Result.success
    /\ "growth_rate" \in DOMAIN Result.data
    /\ Result.data["mean"] # Result.data["weighted_mean"]

(***************************************************************************)
(* C8: for a successful full calculation (the inputs of C7) data has       *)
(* entries under the names the test test_full_calculation looks up:        *)
(* "Srednee arifmeticheskoe", "Temp rosta, %", "Koefficient effektivnosti".*)
(***************************************************************************)
C8_DisplayNames ==
    FullInput =>
        {"Srednee arifmeticheskoe", "Temp rosta, %", "Koefficient effektivnosti"}
            \subseteq DOMAIN Result.data

(***************************************************************************)
(* C9: calculate_growth_rate(current, 0) fails for every current, and the  *)
(* exception it raises is the ZeroDivisionError of app.validators.         *)
(***************************************************************************)
C9_ZeroDivisionKind ==
    (op = "calculate_growth_rate" /\ RZero(scalars[2])) =>
        (ret.raised /\ ret.exc = "ZeroDivisionError")

(***************************************************************************)
(* C10: validate_input_data accumulates every violation: on a non-empty    *)
(* indicator sequence it returns silently iff nothing is violated and      *)
(* otherwise raises one ValidationError with one line per violation (per   *)
(* indicator, in order: bad identifier, non-numeric value, negative        *)
(* weight; then the uniqueness violation; then each non-numeric            *)
(* coefficient); on an empty sequence it raises ValidationError with the   *)
(* emptiness line alone, whatever the coefficients.                        *)
(***************************************************************************)
ExpectedIndicatorLines(i) ==
    (IF BadIdentifier(i) THEN <<"Nekorrektnyj identifikator">> ELSE <<>>)
    \o (IF NonNumericValue(i) THEN <<"Nekorrektnoe znachenie dlya">> ELSE <<>>)
    \o (IF NegativeWeight(i) THEN <<"Ves ne mozhet byt' otricatel'nym">> ELSE <<>>)

ExpectedLines ==
    Concat([i \in Idx |-> ExpectedIndicatorLines(i)])
    \o (IF DuplicateIdentifiers
        THEN <<"Identifikatory pokazatelej dolzhny byt' unikal'nymi">> ELSE <<>>)
    \o Concat([k \in 1..Len(coefficients) |->
                 IF NonNumericCoefficient(k)
                 THEN <<"Koefficient dolzhen byt' chislom">> ELSE <<>>])

Lines(msg) == [k \in 1..Len(msg) |-> msg[k].text]

C10_AccumulatesViolations ==
    op = "validate_input_data" =>
        IF InputEmpty
        THEN /\ ret.raised
             /\ ret.exc = "ValidationError"
             /\ Lines(ret.msg) = <<"Spisok pokazatelej pust">>
        ELSE IF ~InputViolation
        THEN ~ret.raised
        ELSE /\ ret.raised
             /\ ret.exc = "ValidationError"
             /\ Lines(ret.msg) = ExpectedLines

(***************************************************************************)
(* C11: on validated input, data has growth_rate iff previous_period_value *)
(* is present and non-zero, and a previous_period_value of 0 appends       *)
(* exactly one growth-rate entry to errors (none to warnings) and writes   *)
(* no growth_rate; data has efficiency_ratio iff output_value and          *)
(* input_value are both present and input_value # 0, an input_value of 0   *)
(* next to an output_value appends exactly one efficiency entry to errors, *)
(* and with only one of the two keys there is neither the entry nor an     *)
(* efficiency error; unrecognized coefficient keys change nothing in the   *)
(* result.                                                                 *)
(***************************************************************************)
RecognizedKeys == {"previous_period_value", "output_value", "input_value"}
IsRecognized(item) == item[1] \in RecognizedKeys
\* the coefficients without the unrecognized keys
Recognized(coefs) == SelectSeq(coefs, IsRecognized)

CountErrors(prefix) ==
    Cardinality({k \in 1..Len(Result.errors) : Result.errors[k].prefix = prefix})

C11_CoefficientGating ==
    (AllMetricsCalled /\ PassesValidation) =>
        /\ ~ret.raised
        /\ ("growth_rate" \in DOMAIN Result.data)
              <=> PresentNonZero("previous_period_value")
        /\ PresentZero("previous_period_value") =>
              /\ CountErrors("Temp rosta") = 1
              /\ ~HasWarning("Temp rosta")
        /\ ("efficiency_ratio" \in DOMAIN Result.data)
              <=> (Present("output_value") /\ PresentNonZero("input_value"))
        /\ (Present("output_value") /\ PresentZero("input_value")) =>
              CountErrors("Koefficient effektivnosti") = 1
        /\ (Present("output_value") # Present("input_value")) =>
              /\ "efficiency_ratio" \notin DOMAIN Result.data
              /\ CountErrors("Koefficient effektivnosti") = 0
        /\ ret = calculate_all_metrics(
                    CalculationInput(indicators, Recognized(coefficients)))

\* a valid input with previous_period_value = 0 and input_value alone: one
\* growth-rate error, nothing about the efficiency ratio
C11_Witness ==
    /\ AllMetricsCalled
    /\ PassesValidation
    /\ PresentZero("previous_period_value")
    /\ Present("input_value")
    /\ ~Present("output_value")
    /\ ~ret.raised
    /\ CountErrors("Temp rosta") = 1
    /\ "growth_rate" \notin DOMAIN Result.data

(***************************************************************************)
(* C12: on an input that passes validation the mean, the median and the    *)
(* range never fail, so data always has mean, median, min_value,           *)
(* max_value, value_range, sum and count; and warnings is empty for 2 or   *)
(* more indicators and, for exactly 1 indicator, holds exactly two         *)
(* entries: the standard deviation, then the variance.                     *)
(***************************************************************************)
WarningPrefixes == [k \in 1..Len(Result.warnings) |-> Result.warnings[k].prefix]

C12_ValidatedInputWarnings ==
    (AllMetricsCalled /\ PassesValidation) =>
        /\ ~ret.raised
        /\ {"mean", "median", "min_value", "max_value", "value_range", "sum", "count"}
              \subseteq DOMAIN Result.data
        /\ ~HasError("Srednee arifmeticheskoe")
        /\ ~HasWarning("Mediana")
        /\ ~HasWarning("Razmah")
        /\ Len(indicators) >= 2 => Result.warnings = <<>>
        /\ Len(indicators) = 1 =>
              WarningPrefixes = <<"Standartnoe otklonenie", "Dispersiya">>

\* two valid indicators: every statistic computed, no warning
C12_Witness ==
    /\ AllMetricsCalled
    /\ PassesValidation
    /\ Len(indicators) = 2
    /\ ~ret.raised
    /\ Result.warnings = <<>>
    /\ {"median", "std_dev", "variance", "value_range"} \subseteq DOMAIN Result.data

====
